---- MODULE Spec2Model ----
(***************************************************************************)
(* Model of update_and_load_to_aurora (write_upsert_aws_in_pyspark.py):    *)
(* a full outer join of the new batch with the current data on the primary *)
(* keys, three filters over the joined rows (updated, new, unchanged), the *)
(* union of the three projections, and an overwrite of the destination.    *)
(*                                                                         *)
(* A DataFrame is a record [columns, rows] whose rows form a bag of        *)
(* records over the columns.  Column expressions are evaluated in SQL's    *)
(* three-valued logic; a filter keeps the rows whose condition is TRUE.    *)
(***************************************************************************)
EXTENDS Integers, FiniteSets, Sequences, Bags, TLC

\* Largest number of rows of a DataFrame handed to the function.  (With the
\* key values below a DataFrame with unique composite keys has at most two rows.)
MaxRows == 2

\* SQL NULL, and the value domains of the four columns of the model.  A caller
\* that keeps the primary key non-NULL draws "id" from IdVals; NullableIdVals
\* is the domain of a caller that does not.
NULL == "NULL"
IdVals == {"1"}
NullableIdVals == {NULL, "1"}
SubVals == {"1", "2"}
ColVals == {NULL, "a", "b"}

\* "id" and "sub" are the columns primary keys are drawn from; with
\* primary_keys = <<"id">> the column "sub" is a passthrough column.
KeyCols == {"id", "sub"}
ComparedCols == {"value_col", "another_col"}
Schemas == {KeyCols \cup S : S \in SUBSET ComparedCols}
PKChoices == {<< >>, <<"id">>, <<"id", "sub">>}

Procs == {1, 2}

ColDomain(c, ids) == IF c = "id" THEN ids ELSE IF c = "sub" THEN SubVals ELSE ColVals

RowsOver(cols, ids) ==
    {r \in [cols -> ids \cup SubVals \cup ColVals] : \A c \in cols : r[c] \in ColDomain(c, ids)}

KeyOf(r, pks) == [i \in 1..Len(pks) |-> r[pks[i]]]

\* Sets of at most n rows with pairwise different primary keys.
RECURSIVE RowSets(_, _, _)
RowSets(rows, pks, n) ==
    IF n = 0 THEN {{}}
    ELSE LET prev == RowSets(rows, pks, n - 1)
         IN  prev \cup
             {p[1] \cup {p[2]} :
                p \in {q \in prev \X rows : \A s \in q[1] : KeyOf(s, pks) # KeyOf(q[2], pks)}}

Frames(pks, ids, n) ==
    UNION {{[columns |-> cols, rows |-> SetToBag(S)] :
              S \in RowSets(RowsOver(cols, ids), pks, n)} : cols \in Schemas}

\* The DataFrames of a caller that keeps the primary key unique and non-NULL,
\* and the single-row DataFrames of one that lets "id" be NULL.
FramesFor == [p \in PKChoices |-> Frames(p, IdVals, MaxRows)]
NullKeyFramesFor == [p \in PKChoices \ {<< >>} |-> Frames(p, NullableIdVals, 1)]

EmptyFrame == [columns |-> {}, rows |-> EmptyBag]

\* The precondition on a DataFrame passed as current_data or new_data: no two
\* rows carry the same primary key.
UniqueKeys(df, pks) ==
    \A r \in DOMAIN df.rows :
        /\ df.rows[r] = 1
        /\ \A s \in DOMAIN df.rows : s # r => KeyOf(s, pks) # KeyOf(r, pks)

(***************************************************************************)
(* Column expressions: SQL three-valued logic.                             *)
(***************************************************************************)
T3 == "true"
F3 == "false"
U3 == "unknown"

IsNotNull(a) == IF a # NULL THEN T3 ELSE F3
IsNull(a) == IF a = NULL THEN T3 ELSE F3
Neq3(a, b) == IF a = NULL \/ b = NULL THEN U3 ELSE IF a # b THEN T3 ELSE F3
Or3(x, y) == IF x = T3 \/ y = T3 THEN T3 ELSE IF x = F3 /\ y = F3 THEN F3 ELSE U3
And3(x, y) == IF x = F3 \/ y = F3 THEN F3 ELSE IF x = T3 /\ y = T3 THEN T3 ELSE U3
Not3(x) == IF x = T3 THEN F3 ELSE IF x = F3 THEN T3 ELSE U3

\* A column expression is given by its value on every row of the DataFrame.
\* DataFrame.filter: the rows whose condition evaluates to TRUE.
Filter(B, cond) == [x \in {y \in DOMAIN B : cond[y] = T3} |-> B[x]]

\* DataFrame.select: the bag of the projected rows.
Select(B, proj) == BagOfAll(LAMBDA x : proj[x], B)

NullRow(cols) == [c \in cols |-> NULL]

\* The join condition of a USING join: SQL equality on every key column.
Matches(n, c, pks) ==
    \A i \in 1..Len(pks) : n[pks[i]] # NULL /\ c[pks[i]] # NULL /\ n[pks[i]] = c[pks[i]]

\* new_data.alias("nd").join(current_data.alias("cd"), on=primary_keys, how="fullouter"):
\* a joined row is [nd, cd]; the columns of a side without a match are all NULL.
FullOuterJoin(new, cur, pks) ==
    LET N == BagToSet(new.rows)
        C == BagToSet(cur.rows)
        both == {p \in N \X C : Matches(p[1], p[2], pks)}
        matched == [j \in {[nd |-> p[1], cd |-> p[2]] : p \in both}
                      |-> new.rows[j.nd] * cur.rows[j.cd]]
        leftOnly == [n \in {m \in N : \A c \in C : ~Matches(m, c, pks)} |-> new.rows[n]]
        rightOnly == [c \in {d \in C : \A n \in N : ~Matches(n, d, pks)} |-> cur.rows[c]]
        NdOnly(n) == [nd |-> n, cd |-> NullRow(cur.columns)]
        CdOnly(c) == [nd |-> NullRow(new.columns), cd |-> c]
    IN  matched (+) BagOfAll(NdOnly, leftOnly) (+) BagOfAll(CdOnly, rightOnly)

\* Variant: the two comparisons joined by & instead of |.
ChangedBoth(j) ==
    And3(Neq3(j.nd["value_col"], j.cd["value_col"]),
         Neq3(j.nd["another_col"], j.cd["another_col"]))

\* (nd.value_col != cd.value_col) | (nd.another_col != cd.another_col)
Changed(j) ==
    Or3(Neq3(j.nd["value_col"], j.cd["value_col"]),
        Neq3(j.nd["another_col"], j.cd["another_col"]))

BothPresent(j, pks) == And3(IsNotNull(j.nd[pks[1]]), IsNotNull(j.cd[pks[1]]))

UpdatedCond(j, pks) == And3(BothPresent(j, pks), Changed(j))
\* Variant: the new-row filter tests the "nd" side instead of the "cd" side.
NewCondOnNd(j, pks) == IsNull(j.nd[pks[1]])
NewCond(j, pks) == IsNull(j.cd[pks[1]])
UnchangedCond(j, pks) == And3(BothPresent(j, pks), Not3(Changed(j)))

Range(s) == {s[i] : i \in 1..Len(s)}

\* [col("nd." + pk) for pk in primary_keys] + [col("nd." + c) for c in new_data.columns if c not in primary_keys]
SelectUpdated(j, pks, newCols) == [c \in Range(pks) \cup (newCols \ Range(pks)) |-> j.nd[c]]
\* Variant: new rows projected with select("cd.*").
SelectNdAsCd(j) == j.cd
SelectNd(j) == j.nd
SelectCd(j) == j.cd

\* The exceptions raised before the write: primary_keys[0] of an empty list,
\* and a column reference no side of the join resolves.
Raises(cur, new, pks) ==
    \/ pks = << >>
    \/ \E c \in ComparedCols : c \notin new.columns \/ c \notin cur.columns

\* The body of the function up to final_df.
Reconcile(cur, new, pks) ==
    LET joined_df == FullOuterJoin(new, cur, pks)
        J == DOMAIN joined_df
        upd == Select(Filter(joined_df, [j \in J |-> UpdatedCond(j, pks)]),
                      [j \in J |-> SelectUpdated(j, pks, new.columns)])
        ins == Select(Filter(joined_df, [j \in J |-> NewCond(j, pks)]),
                      [j \in J |-> SelectNd(j)])
        unc == Select(Filter(joined_df, [j \in J |-> UnchangedCond(j, pks)]),
                      [j \in J |-> SelectCd(j)])
    IN  [updated_rows |-> upd, new_rows |-> ins, unchanged_rows |-> unc,
         final_df |-> ins (+) upd (+) unc]

NoLocals == [updated_rows |-> EmptyBag, new_rows |-> EmptyBag,
             unchanged_rows |-> EmptyBag, final_df |-> EmptyBag]

\* The DataFrames two concurrent callers work with: every column present,
\* primary key "id".
ConcFrames == {f \in FramesFor[<<"id">>] : f.columns = KeyCols \cup ComparedCols}

(***************************************************************************)
(* State.                                                                  *)
(***************************************************************************)
VARIABLES
    table,          \* content of the destination table
    primary_keys,   \* the primary_keys argument used against this destination
    pc,             \* per invocation: "idle", "loaded", "done", "failed"
    current_data,   \* per invocation: the current_data argument
    new_data,       \* per invocation: the new_data argument
    locals,         \* per invocation: updated_rows, new_rows, unchanged_rows, final_df
    wrote,          \* per invocation: final_df.write...save() was reached
    printed,        \* per invocation: the success message was printed
    rerun           \* per invocation: a second run with the same new_data

vars == <<table, primary_keys, pc, current_data, new_data, locals, wrote, printed, rerun>>

Idle == /\ pc = [i \in Procs |-> "idle"]
        /\ current_data = [i \in Procs |-> EmptyFrame]
        /\ new_data = [i \in Procs |-> EmptyFrame]
        /\ locals = [i \in Procs |-> NoLocals]
        /\ wrote = [i \in Procs |-> FALSE]
        /\ printed = [i \in Procs |-> FALSE]
        /\ rerun = [i \in Procs |-> FALSE]

Init == /\ primary_keys \in PKChoices
        /\ table \in FramesFor[primary_keys]
        /\ Idle

\* Variant: the write in mode("append").
WriteAppend(old, df) == [columns |-> df.columns, rows |-> old.rows (+) df.rows]

\* final_df.write.format("jdbc")...mode("overwrite").save()
Overwrite(old, df) == df

\* Variant: the exception is swallowed and the success message printed anyway.
update_and_load_swallowing(i, cur, new) ==
    /\ IF Raises(cur, new, primary_keys)
       THEN /\ pc' = [pc EXCEPT ![i] = "done"]
            /\ locals' = [locals EXCEPT ![i] = NoLocals]
            /\ wrote' = [wrote EXCEPT ![i] = FALSE]
            /\ printed' = [printed EXCEPT ![i] = TRUE]
            /\ UNCHANGED table
       ELSE LET r == Reconcile(cur, new, primary_keys)
            IN  /\ locals' = [locals EXCEPT ![i] = r]
                /\ table' = Overwrite(table, [columns |-> new.columns, rows |-> r.final_df])
                /\ wrote' = [wrote EXCEPT ![i] = TRUE]
                /\ printed' = [printed EXCEPT ![i] = TRUE]
                /\ pc' = [pc EXCEPT ![i] = "done"]
    /\ UNCHANGED primary_keys

\* update_and_load_to_aurora(spark, current_data, new_data, primary_keys, ...)
\* called by invocation i with current_data = cur and new_data = new.
update_and_load_to_aurora(i, cur, new) ==
    /\ IF Raises(cur, new, primary_keys)
       THEN /\ pc' = [pc EXCEPT ![i] = "failed"]
            /\ locals' = [locals EXCEPT ![i] = NoLocals]
            /\ wrote' = [wrote EXCEPT ![i] = FALSE]
            /\ printed' = [printed EXCEPT ![i] = FALSE]
            /\ UNCHANGED table
       ELSE LET r == Reconcile(cur, new, primary_keys)
            IN  /\ locals' = [locals EXCEPT ![i] = r]
                /\ table' = Overwrite(table, [columns |-> new.columns, rows |-> r.final_df])
                /\ wrote' = [wrote EXCEPT ![i] = TRUE]
                /\ printed' = [printed EXCEPT ![i] = TRUE]
                /\ pc' = [pc EXCEPT ![i] = "done"]
    /\ UNCHANGED primary_keys

\* A caller reads the destination table as current_data and runs the function.
Call(i, new) ==
    /\ pc[i] = "idle"
    /\ UniqueKeys(table, primary_keys)
    /\ current_data' = [current_data EXCEPT ![i] = table]
    /\ new_data' = [new_data EXCEPT ![i] = new]
    /\ update_and_load_to_aurora(i, table, new)
    /\ UNCHANGED rerun

\* The caller runs the operation again with the same new_data against the
\* table the first run left.
Rerun(i) ==
    /\ pc[i] = "done"
    /\ ~rerun[i]
    /\ UniqueKeys(table, primary_keys)
    /\ current_data' = [current_data EXCEPT ![i] = table]
    /\ update_and_load_to_aurora(i, table, new_data[i])
    /\ rerun' = [rerun EXCEPT ![i] = TRUE]
    /\ UNCHANGED new_data

\* The function has returned (or its exception has reached the caller).
Return(i) ==
    /\ pc[i] \in {"done", "failed"}
    /\ pc' = [pc EXCEPT ![i] = "idle"]
    /\ current_data' = [current_data EXCEPT ![i] = EmptyFrame]
    /\ new_data' = [new_data EXCEPT ![i] = EmptyFrame]
    /\ locals' = [locals EXCEPT ![i] = NoLocals]
    /\ wrote' = [wrote EXCEPT ![i] = FALSE]
    /\ printed' = [printed EXCEPT ![i] = FALSE]
    /\ rerun' = [rerun EXCEPT ![i] = FALSE]
    /\ UNCHANGED <<table, primary_keys>>

\* One caller at a time.
Next ==
    \/ \E new \in FramesFor[primary_keys] : Call(1, new)
    \/ Rerun(1)
    \/ Return(1)

Spec == Init /\ [][Next]_vars

\* A caller whose DataFrames may hold NULL in the first primary-key column.
InitNullKeys == /\ primary_keys \in PKChoices \ {<< >>}
                /\ table \in NullKeyFramesFor[primary_keys]
                /\ Idle

NextNullKeys ==
    \/ \E new \in NullKeyFramesFor[primary_keys] : Call(1, new)
    \/ Rerun(1)
    \/ Return(1)

SpecNullKeys == InitNullKeys /\ [][NextNullKeys]_vars

(***************************************************************************)
(* Two callers against the same destination: each reads the table, then    *)
(* runs the function on what it read.  Nothing orders the read of one      *)
(* caller with the write of the other.                                     *)
(***************************************************************************)
Load(i, new) ==
    /\ pc[i] = "idle"
    /\ pc' = [pc EXCEPT ![i] = "loaded"]
    /\ current_data' = [current_data EXCEPT ![i] = table]
    /\ new_data' = [new_data EXCEPT ![i] = new]
    /\ UNCHANGED <<table, primary_keys, locals, wrote, printed, rerun>>

\* Variant: the function reads the table again when it runs, as it would
\* inside a transaction that spans the read and the write.
InvokeOnFreshRead(i) ==
    /\ pc[i] = "loaded"
    /\ update_and_load_to_aurora(i, table, new_data[i])
    /\ UNCHANGED <<current_data, new_data, rerun>>

\* The caller passes on what it read; the table may have changed since.
Invoke(i) ==
    /\ pc[i] = "loaded"
    /\ update_and_load_to_aurora(i, current_data[i], new_data[i])
    /\ UNCHANGED <<current_data, new_data, rerun>>

InitConc == /\ primary_keys = <<"id">>
            /\ table \in ConcFrames
            /\ Idle

NextConc ==
    \/ \E i \in Procs : \E new \in ConcFrames : Load(i, new)
    \/ \E i \in Procs : Invoke(i)

SpecConc == InitConc /\ [][NextConc]_vars

(***************************************************************************)
(* Properties.  They speak of caller 1 once its call has ended:            *)
(* current_data[1] is the table as the call found it, new_data[1] the      *)
(* batch, locals[1] the buckets and final_df the call computed.            *)
(***************************************************************************)
Key(r) == KeyOf(r, primary_keys)
KeyIn(k, df) == \E r \in DOMAIN df.rows : Key(r) = k

\* The rows of bag B that carry key k, with their multiplicities.
RowsWithKey(B, k) == [r \in {x \in DOMAIN B : Key(x) = k} |-> B[r]]
Only(r) == SetToBag({r})

Buckets(j) ==
    {b \in {"Updated", "Inserted", "Unchanged"} :
        \/ b = "Updated" /\ UpdatedCond(j, primary_keys) = T3
        \/ b = "Inserted" /\ NewCond(j, primary_keys) = T3
        \/ b = "Unchanged" /\ UnchangedCond(j, primary_keys) = T3}

\* C1: with unique, non-NULL primary keys and any values of value_col and
\* another_col (NULL included), every joined row whose key is in New falls in
\* exactly one bucket, and the reconciled dataset holds exactly one row per key
\* of New: as many rows as New, none duplicated, none lost.
C1_OneBucketPerNewKey ==
    pc[1] = "done" =>
        /\ \A j \in DOMAIN FullOuterJoin(new_data[1], current_data[1], primary_keys) :
              j.nd[primary_keys[1]] # NULL => Cardinality(Buckets(j)) = 1
        /\ BagCardinality(locals[1].final_df) = BagCardinality(new_data[1].rows)
        /\ \A n \in DOMAIN new_data[1].rows :
              BagCardinality(RowsWithKey(locals[1].final_df, Key(n))) = 1

\* C2: for every key present in New but not in Current, the reconciled dataset
\* holds exactly one row with that key, and it is New's row, column by column.
C2_InsertedRowIsNew ==
    pc[1] = "done" =>
        \A n \in DOMAIN new_data[1].rows :
            ~KeyIn(Key(n), current_data[1]) =>
                RowsWithKey(locals[1].final_df, Key(n)) = Only(n)

C2_Witness ==
    /\ pc[1] = "done"
    /\ \E n \in DOMAIN new_data[1].rows : ~KeyIn(Key(n), current_data[1])
    /\ \E n \in DOMAIN new_data[1].rows : KeyIn(Key(n), current_data[1])

\* C3: for every key present in both, where value_col and another_col are
\* non-NULL on both sides and at least one of them differs, the reconciled
\* dataset holds exactly one row with that key, and it is New's row.
C3_UpdatedRowIsNew ==
    pc[1] = "done" =>
        \A n \in DOMAIN new_data[1].rows : \A c \in DOMAIN current_data[1].rows :
            (/\ Key(n) = Key(c)
             /\ \A x \in ComparedCols : n[x] # NULL /\ c[x] # NULL
             /\ \E x \in ComparedCols : n[x] # c[x])
            => RowsWithKey(locals[1].final_df, Key(n)) = Only(n)

C3_Witness ==
    /\ pc[1] = "done"
    /\ \E n \in DOMAIN new_data[1].rows : \E c \in DOMAIN current_data[1].rows :
          /\ Key(n) = Key(c)
          /\ \A x \in ComparedCols : n[x] # NULL /\ c[x] # NULL
          /\ n["value_col"] = c["value_col"]
          /\ n["another_col"] # c["another_col"]

\* C4: for every key present in both, where value_col and another_col are equal
\* on the two sides, the reconciled dataset holds exactly one row with that key,
\* and it is Current's row, also where a passthrough column differs in New.
C4_UnchangedRowIsCurrent ==
    pc[1] = "done" =>
        \A n \in DOMAIN new_data[1].rows : \A c \in DOMAIN current_data[1].rows :
            (Key(n) = Key(c) /\ \A x \in ComparedCols : n[x] = c[x])
            => RowsWithKey(locals[1].final_df, Key(c)) = Only(c)

C6_SecondRunUnchanged ==
    (pc[1] = "done" /\ rerun[1]) =>
        /\ locals[1].new_rows = EmptyBag
        /\ locals[1].updated_rows = EmptyBag
        /\ locals[1].final_df = current_data[1].rows
        /\ table = current_data[1]

\* C7: every row of the reconciled dataset is, on all its columns, New's row or
\* Current's row for its primary key: none mixes the two sides, none is a row
\* that matches no input record.
C7_RowsComeFromOneInput ==
    pc[1] = "done" =>
        \A r \in DOMAIN locals[1].final_df :
            r \in DOMAIN new_data[1].rows \/ r \in DOMAIN current_data[1].rows

\* C8: every step that ends an invocation successfully leaves the table equal
\* to the reconciled dataset of (the table before the step, that invocation's
\* New): the prior content is replaced, not patched.
C8_TableIsReconciled ==
    [][(pc'[1] = "done" /\ (pc[1] = "idle" \/ rerun'[1] # rerun[1])) =>
          /\ table'.rows = Reconcile(table, new_data'[1], primary_keys).final_df
          /\ table'.columns = new_data'[1].columns
          /\ \A r \in DOMAIN table.rows :
                r \in DOMAIN table'.rows => r \in DOMAIN locals'[1].final_df]_vars

C8_Witness ==
    /\ pc[1] = "done"
    /\ table.rows # EmptyBag
    /\ \E r \in DOMAIN current_data[1].rows : r \notin DOMAIN table.rows
    /\ \E r \in DOMAIN current_data[1].rows : r \in DOMAIN table.rows

BadArguments ==
    \/ Len(primary_keys) = 0
    \/ \E c \in ComparedCols : c \notin new_data[1].columns \/ c \notin current_data[1].columns

\* C9: when value_col or another_col is absent from either dataset, or
\* primary_keys is empty, the invocation fails before the write: the table is
\* as the call found it, no write is attempted, no success message is printed.
C9_FailsBeforeWrite ==
    (pc[1] \in {"done", "failed"} /\ BadArguments) =>
        /\ pc[1] = "failed"
        /\ table = current_data[1]
        /\ ~wrote[1]
        /\ ~printed[1]

C9_Witness ==
    /\ pc[1] = "failed"
    /\ Len(primary_keys) > 0
    /\ "value_col" \notin current_data[1].columns
    /\ new_data[1].columns = KeyCols \cup ComparedCols
    /\ new_data[1].rows # EmptyBag
    /\ table.rows # EmptyBag

\* The table after two invocations run one after the other from table t0.
SerialOutcome(t0, first, second) ==
    Reconcile([columns |-> first.columns,
               rows |-> Reconcile(t0, first, primary_keys).final_df],
              second, primary_keys).final_df

\* C10: two concurrent invocations are not isolated.  When both read the same
\* Current before either wrote, the table ends as the reconciled dataset one of
\* them computed from that Current alone, the other's write being overwritten;
\* there are runs in which this is the outcome of neither serial order.
C10_LastWriterWins ==
    (pc[1] = "done" /\ pc[2] = "done" /\ current_data[1] = current_data[2]) =>
        \E i \in Procs :
            table.rows = Reconcile(current_data[i], new_data[i], primary_keys).final_df

C10_Witness ==
    /\ pc[1] = "done" /\ pc[2] = "done"
    /\ current_data[1] = current_data[2]
    /\ \A f \in {current_data[1], new_data[1], new_data[2]} :
          /\ f.rows # EmptyBag
          /\ \A r \in DOMAIN f.rows : \A x \in ComparedCols : r[x] # NULL
    /\ table.rows # SerialOutcome(current_data[1], new_data[1], new_data[2])
    /\ table.rows # SerialOutcome(current_data[1], new_data[2], new_data[1])

====
